---------------------------- MODULE Spec2Model ----------------------------
(***************************************************************************)
(* Model of the notebook numerical-solution-SN-BEC-halo-thomas-algorithm:  *)
(* the time-step loop (potential, tridiagonal matrix, Thomas algorithm,    *)
(* new wave function) and the r_99 scan.                                   *)
(*                                                                         *)
(* Numbers.  Python float/complex values are modelled by exact complex     *)
(* rationals: a rational is a pair <<p, q>> in lowest terms with q > 0, a  *)
(* complex number a pair <<re, im>> of rationals.  The pair <<0, 0>> is    *)
(* the non-finite result (inf or nan) that numpy scalars give for a        *)
(* division by zero; it is absorbing.  Indices: Python list position J is  *)
(* sequence position J + 1.                                                *)
(***************************************************************************)
EXTENDS Integers, Sequences, FiniteSets, TLC

VARIABLES N, n, dr, dt, decay, pc, fault, t, psi_n_J, V_n_J, A_J, B_J, C_J,
          B, D, X, r_99, l, s, i

vars == <<N, n, dr, dt, decay, pc, fault, t, psi_n_J, V_n_J, A_J, B_J, C_J,
          B, D, X, r_99, l, s, i>>

(***************************************************************************)
(* Bounds of the model.                                                    *)
(***************************************************************************)
MaxN == 3
MaxSteps == 4

(***************************************************************************)
(* Rational arithmetic.                                                    *)
(***************************************************************************)
Abs(x) == IF x < 0 THEN -x ELSE x

RECURSIVE Gcd(_, _)
Gcd(x, y) == IF y = 0 THEN x ELSE Gcd(y, x % y)

NaN == <<0, 0>>

Finite(x) == x[2] # 0

Rat(p, q) ==
  IF q = 0 THEN NaN
  ELSE LET g == Gcd(Abs(p), Abs(q))
           sg == IF q < 0 THEN -1 ELSE 1
       IN  <<sg * (p \div g), sg * (q \div g)>>

Whole(k) == <<k, 1>>

RNeg(x) == <<-x[1], x[2]>>

RAdd(x, y) ==
  IF ~Finite(x) \/ ~Finite(y) THEN NaN
  ELSE LET g == Gcd(x[2], y[2])
       IN  Rat(x[1] * (y[2] \div g) + y[1] * (x[2] \div g), (x[2] \div g) * y[2])

RSub(x, y) == RAdd(x, RNeg(y))

RMul(x, y) ==
  IF ~Finite(x) \/ ~Finite(y) THEN NaN
  ELSE LET g1 == Gcd(Abs(x[1]), y[2])
           g2 == Gcd(Abs(y[1]), x[2])
       IN  Rat((x[1] \div g1) * (y[1] \div g2), (x[2] \div g2) * (y[2] \div g1))

RDiv(x, y) ==
  IF ~Finite(x) \/ ~Finite(y) \/ y[1] = 0 THEN NaN
  ELSE RMul(x, Rat(y[2], y[1]))

RGt(x, y) == Finite(x) /\ Finite(y) /\ x[1] * y[2] > y[1] * x[2]

(***************************************************************************)
(* Complex arithmetic.                                                     *)
(***************************************************************************)
CNaN == <<NaN, NaN>>

CFinite(z) == Finite(z[1]) /\ Finite(z[2])

Re(x) == <<x, Whole(0)>>

Im(x) == <<Whole(0), x>>

CInt(k) == Re(Whole(k))

CZero(z) == z = CInt(0)

CAdd(z, w) == IF ~CFinite(z) \/ ~CFinite(w) THEN CNaN
              ELSE <<RAdd(z[1], w[1]), RAdd(z[2], w[2])>>

CSub(z, w) == IF ~CFinite(z) \/ ~CFinite(w) THEN CNaN
              ELSE <<RSub(z[1], w[1]), RSub(z[2], w[2])>>

CNeg(z) == CSub(CInt(0), z)

CMul(z, w) ==
  IF ~CFinite(z) \/ ~CFinite(w) THEN CNaN
  ELSE <<RSub(RMul(z[1], w[1]), RMul(z[2], w[2])),
         RAdd(RMul(z[1], w[2]), RMul(z[2], w[1]))>>

Abs2(z) == IF ~CFinite(z) THEN NaN
           ELSE RAdd(RMul(z[1], z[1]), RMul(z[2], z[2]))

CDiv(z, w) ==
  IF ~CFinite(z) \/ ~CFinite(w) \/ CZero(w) THEN CNaN
  ELSE LET m == Abs2(w)
       IN  <<RDiv(RAdd(RMul(z[1], w[1]), RMul(z[2], w[2])), m),
             RDiv(RSub(RMul(z[2], w[1]), RMul(z[1], w[2])), m)>>

(***************************************************************************)
(* Constants of the notebook, in scaled units (the notebook's SI values    *)
(* are not representable; the algorithm treats them as opaque numbers).    *)
(***************************************************************************)
h == 2

M == 3

om_sq == 1

pi == 3

amp == 1

Threshold == Rat(99, 100)

CellSizes == {-1, 0, 1}

StepDurations == {0, 1}

(* decay = 0: the Gaussian underflows to 0.0 beyond J = 0 (the notebook's  *)
(* own run prints psi_n_J[0][-1] = 0.0); decay = 1: a half-width so large  *)
(* that the profile is flat.  A flat profile on more than two cells leaves *)
(* the range of TLC's integers after one step, so it is drawn for N <= 2.  *)
Decays(cells) == IF cells <= 2 THEN {0, 1} ELSE {0}

R == RDiv(Whole(dt), Whole(dr * dr))

K == Im(Rat(h, 8 * M))

P == Im(RDiv(Whole(dt), Whole(2 * h)))

KR == CMul(K, Re(R))

(***************************************************************************)
(* Step 1: the wave vector at t = 0.  decay stands for                     *)
(* exp(-dr^2 / (2 a^2)), so entry J is amp * decay^(J^2).                  *)
(***************************************************************************)
RECURSIVE Pow(_, _)
Pow(x, k) == IF k = 0 THEN Whole(1) ELSE RMul(x, Pow(x, k - 1))

psi_0 == [J1 \in 1..N |-> Re(RMul(Whole(amp), Pow(Whole(decay), (J1 - 1) * (J1 - 1))))]

(***************************************************************************)
(* Step 2: the potential.  sum_1 and sum_2 run over i = 0 .. N-1.          *)
(***************************************************************************)
RECURSIVE sum_1(_, _)
sum_1(snap, k) ==
  IF k = 0 THEN Whole(0)
  ELSE RAdd(sum_1(snap, k - 1),
            RMul(Whole((k - 1) * (k - 1) * dr * dr * dr), Abs2(snap[k])))

RECURSIVE sum_2(_, _)
sum_2(snap, k) ==
  IF k = 0 THEN Whole(0)
  ELSE RAdd(sum_2(snap, k - 1),
            RMul(Whole((k - 1) * (k - 1) * (k - 1) * (k - 1) * dr * dr * dr * dr * dr),
                 Abs2(snap[k])))

Potential(snap, J) ==
  RSub(RMul(Whole(2 * pi * om_sq * (J * dr) * (J * dr)), sum_1(snap, N)),
       sum_2(snap, N))

(***************************************************************************)
(* Step 3: the rows of the tridiagonal matrix.  v is the potential value   *)
(* the row reads.                                                          *)
(***************************************************************************)
Half == Re(Rat(1, 2))

RowA(J) ==
  IF J = 0 THEN CInt(0)
  ELSE IF J = N - 1 THEN CMul(CNeg(KR), Re(Rat(N - 2, N - 1)))
  ELSE CDiv(CMul(CNeg(KR), CInt(J - 1)), CInt(J))

RowB(J, v) ==
  IF J = 0 THEN CMul(Half, CAdd(CAdd(CInt(1), CMul(P, Re(v))), CMul(CInt(12), KR)))
  ELSE IF J = N - 1 THEN CMul(Half, CAdd(CInt(1), CMul(P, Re(v))))
  ELSE CMul(Half, CAdd(CAdd(CInt(1), CMul(P, Re(v))), CMul(CInt(2), KR)))

(* RowC without the outer-boundary case: the plausible slip C10 must catch *)
RowC_NoOuterBoundary(J) ==
  IF J = 0 THEN CMul(CInt(-6), KR)
  ELSE CDiv(CMul(CNeg(KR), CInt(J + 1)), CInt(J))

RowC(J) ==
  IF J = 0 THEN CMul(CInt(-6), KR)
  ELSE IF J = N - 1 THEN CInt(0)
  ELSE CDiv(CMul(CNeg(KR), CInt(J + 1)), CInt(J))

PotentialIndex(J) == t

(***************************************************************************)
(* Step 4: the Thomas algorithm.                                           *)
(***************************************************************************)
(* ForwardB reading c of the same row instead of the row above: the       *)
(* plausible slip C1 must catch                                            *)
RECURSIVE ForwardB_SameRow(_, _, _, _)
ForwardB_SameRow(a, b, c, k) ==
  IF k = 0 THEN <<>>
  ELSE IF k = 1 THEN <<b[1]>>
  ELSE LET prev == ForwardB_SameRow(a, b, c, k - 1)
       IN  Append(prev, CSub(b[k], CDiv(CMul(a[k], c[k]), prev[k - 1])))

RECURSIVE ForwardB(_, _, _, _)
ForwardB(a, b, c, k) ==
  IF k = 0 THEN <<>>
  ELSE IF k = 1 THEN <<b[1]>>
  ELSE LET prev == ForwardB(a, b, c, k - 1)
       IN  Append(prev, CSub(b[k], CDiv(CMul(a[k], c[k - 1]), prev[k - 1])))

RECURSIVE ForwardD(_, _, _, _)
ForwardD(a, d, Bs, k) ==
  IF k = 0 THEN <<>>
  ELSE IF k = 1 THEN <<d[1]>>
  ELSE LET prev == ForwardD(a, d, Bs, k - 1)
       IN  Append(prev, CSub(d[k], CDiv(CMul(a[k], prev[k - 1]), Bs[k - 1])))

RECURSIVE BackwardX(_, _, _, _)
BackwardX(c, Bs, Ds, k) ==
  IF k = 0 THEN <<>>
  ELSE IF k = 1 THEN <<CDiv(Ds[N], Bs[N])>>
  ELSE LET prev == BackwardX(c, Bs, Ds, k - 1)
       IN  Append(prev, CDiv(CSub(Ds[N + 1 - k], CMul(c[N + 1 - k], prev[k - 1])),
                             Bs[N + 1 - k]))

Reverse(q) == [k \in 1..Len(q) |-> q[Len(q) + 1 - k]]

NumpyScalars == t > 0

(***************************************************************************)
(* Step 5: the new wave function.                                          *)
(***************************************************************************)
NewPsi(x, snap) == [k \in 1..Len(x) |-> CSub(x[k], snap[k])]

(***************************************************************************)
(* The r_99 scan over one snapshot: the for loop with its break and else.  *)
(***************************************************************************)
Summand(j, z) == RMul(Whole(4 * pi * (j * dr) * (j * dr) * dr), Abs2(z))

(* Scan advancing the index before the test: the plausible slip C6 must   *)
(* catch                                                                   *)
RECURSIVE Scan_IndexAhead(_, _, _, _)
Scan_IndexAhead(snap, k, ii, ss) ==
  IF k > Len(snap) THEN [hit |-> FALSE, i |-> ii, s |-> ss]
  ELSE LET s2 == IF Finite(ss) THEN RAdd(ss, Summand(ii, snap[k])) ELSE NaN
       IN  IF RGt(s2, Threshold) THEN [hit |-> TRUE, i |-> ii + 1, s |-> s2]
           ELSE Scan_IndexAhead(snap, k + 1, ii + 1, s2)

RECURSIVE Scan(_, _, _, _)
Scan(snap, k, ii, ss) ==
  IF k > Len(snap) THEN [hit |-> FALSE, i |-> ii, s |-> ss]
  ELSE LET s2 == IF Finite(ss) THEN RAdd(ss, Summand(ii, snap[k])) ELSE NaN
       IN  IF RGt(s2, Threshold) THEN [hit |-> TRUE, i |-> ii, s |-> s2]
           ELSE Scan(snap, k + 1, ii + 1, s2)

(***************************************************************************)
(* The notebook as a state machine.                                        *)
(***************************************************************************)
Init ==
  /\ N \in 0..MaxN
  /\ n \in 0..MaxSteps
  /\ dr \in CellSizes
  /\ dt \in StepDurations
  /\ decay \in Decays(N)
  /\ pc = "config"
  /\ fault = "none"
  /\ t = 0
  /\ psi_n_J = <<>>
  /\ V_n_J = <<>> /\ A_J = <<>> /\ B_J = <<>> /\ C_J = <<>>
  /\ B = <<>> /\ D = <<>> /\ X = <<>>
  /\ r_99 = <<>> /\ l = 0 /\ s = Whole(0) /\ i = 0

LoopEntry(tt) == IF tt < n THEN "potential" ELSE "r99"

Prepare ==
  /\ pc = "config"
  /\ IF dr = 0
       THEN /\ pc' = "fault"
            /\ fault' = "ZeroDivisionError"
            /\ UNCHANGED psi_n_J
       ELSE /\ psi_n_J' = <<psi_0>>
            /\ pc' = LoopEntry(0)
            /\ UNCHANGED fault
  /\ UNCHANGED <<N, n, dr, dt, decay, t, V_n_J, A_J, B_J, C_J, B, D, X, r_99, l, s, i>>

ComputePotential ==
  /\ pc = "potential"
  /\ V_n_J' = [J1 \in 1..N |-> Potential(psi_n_J[t + 1], J1 - 1)]
  /\ pc' = "build"
  /\ UNCHANGED <<N, n, dr, dt, decay, fault, t, psi_n_J, A_J, B_J, C_J, B, D, X, r_99, l, s, i>>

BuildMatrix ==
  /\ pc = "build"
  /\ IF \E J \in 0..(N - 1) : PotentialIndex(J) >= Len(V_n_J)
       THEN /\ pc' = "fault"
            /\ fault' = "IndexError"
            /\ UNCHANGED <<V_n_J, A_J, B_J, C_J>>
       ELSE /\ A_J' = [J1 \in 1..N |-> RowA(J1 - 1)]
            /\ B_J' = [J1 \in 1..N |-> RowB(J1 - 1, V_n_J[PotentialIndex(J1 - 1) + 1])]
            /\ C_J' = [J1 \in 1..N |-> RowC(J1 - 1)]
            /\ V_n_J' = <<>>
            /\ pc' = "forward"
            /\ UNCHANGED fault
  /\ UNCHANGED <<N, n, dr, dt, decay, t, psi_n_J, B, D, X, r_99, l, s, i>>

ZeroPivot(Bs, upto) == \E k \in 1..upto : CZero(Bs[k])

ForwardSweep ==
  /\ pc = "forward"
  /\ LET Bs == ForwardB(A_J, B_J, C_J, N)
         Ds == ForwardD(A_J, psi_n_J[t + 1], Bs, N)
     IN  IF ~NumpyScalars /\ ZeroPivot(Bs, N - 1)
           THEN /\ pc' = "fault"
                /\ fault' = "ZeroDivisionError"
                /\ UNCHANGED <<B, D>>
           ELSE /\ B' = Bs
                /\ D' = Ds
                /\ pc' = "backward"
                /\ UNCHANGED fault
  /\ UNCHANGED <<N, n, dr, dt, decay, t, psi_n_J, V_n_J, A_J, B_J, C_J, X, r_99, l, s, i>>

BackwardSweep ==
  /\ pc = "backward"
  /\ IF ~NumpyScalars /\ ZeroPivot(B, N)
       THEN /\ pc' = "fault"
            /\ fault' = "ZeroDivisionError"
            /\ UNCHANGED <<A_J, B_J, C_J, B, D, X>>
       ELSE /\ X' = Reverse(BackwardX(C_J, B, D, N))
            /\ A_J' = <<>> /\ B_J' = <<>> /\ C_J' = <<>>
            /\ B' = <<>> /\ D' = <<>>
            /\ pc' = "append"
            /\ UNCHANGED fault
  /\ UNCHANGED <<N, n, dr, dt, decay, t, psi_n_J, V_n_J, r_99, l, s, i>>

(* AppendPsi storing the new wave function over the current one: the      *)
(* plausible slip C9 must catch                                            *)
AppendPsi_Overwrite ==
  /\ pc = "append"
  /\ psi_n_J' = [psi_n_J EXCEPT ![t + 1] = NewPsi(X, psi_n_J[t + 1])]
  /\ X' = <<>>
  /\ t' = t + 1
  /\ pc' = LoopEntry(t + 1)
  /\ UNCHANGED <<N, n, dr, dt, decay, fault, V_n_J, A_J, B_J, C_J, B, D, r_99, l, s, i>>

AppendPsi ==
  /\ pc = "append"
  /\ psi_n_J' = Append(psi_n_J, NewPsi(X, psi_n_J[t + 1]))
  /\ X' = <<>>
  /\ t' = t + 1
  /\ pc' = LoopEntry(t + 1)
  /\ UNCHANGED <<N, n, dr, dt, decay, fault, V_n_J, A_J, B_J, C_J, B, D, r_99, l, s, i>>

(* the scan without the for-else branch: l only moves on a crossing *)
ScanSnapshot_StallOnExhaust ==
  /\ pc = "r99"
  /\ l <= n
  /\ IF l + 1 > Len(psi_n_J)
       THEN /\ pc' = "fault"
            /\ fault' = "IndexError"
            /\ UNCHANGED <<r_99, l, s, i>>
       ELSE LET res == Scan(psi_n_J[l + 1], 1, 0, Whole(0))
            IN  /\ r_99' = IF res.hit THEN Append(r_99, Whole(res.i * dr)) ELSE r_99
                /\ i' = res.i
                /\ s' = res.s
                /\ l' = IF res.hit THEN l + 1 ELSE l
                /\ UNCHANGED <<pc, fault>>
  /\ UNCHANGED <<N, n, dr, dt, decay, t, psi_n_J, V_n_J, A_J, B_J, C_J, B, D, X>>

ScanSnapshot ==
  /\ pc = "r99"
  /\ l <= n
  /\ IF l + 1 > Len(psi_n_J)
       THEN /\ pc' = "fault"
            /\ fault' = "IndexError"
            /\ UNCHANGED <<r_99, l, s, i>>
       ELSE LET res == Scan(psi_n_J[l + 1], 1, 0, Whole(0))
            IN  /\ r_99' = IF res.hit THEN Append(r_99, Whole(res.i * dr)) ELSE r_99
                /\ i' = res.i
                /\ s' = res.s
                /\ l' = l + 1
                /\ UNCHANGED <<pc, fault>>
  /\ UNCHANGED <<N, n, dr, dt, decay, t, psi_n_J, V_n_J, A_J, B_J, C_J, B, D, X>>

Report ==
  /\ pc = "r99"
  /\ l > n
  /\ IF r_99 = <<>>
       THEN pc' = "fault" /\ fault' = "IndexError"
       ELSE pc' = "done" /\ UNCHANGED fault
  /\ UNCHANGED <<N, n, dr, dt, decay, t, psi_n_J, V_n_J, A_J, B_J, C_J, B, D, X, r_99, l, s, i>>

Next ==
  \/ Prepare
  \/ ComputePotential
  \/ BuildMatrix
  \/ ForwardSweep
  \/ BackwardSweep
  \/ AppendPsi
  \/ ScanSnapshot
  \/ Report

Spec == Init /\ [][Next]_vars

(***************************************************************************)
(* The Thomas block (step 4 and step 5) on a general tridiagonal system:   *)
(* the coefficient lists and the right-hand side psi_n_J[t] are drawn from *)
(* small sets, with the conventions a[0] = 0 and c[N-1] = 0.  At t = 0 the *)
(* operands are Python scalars, at t > 0 they are numpy scalars.           *)
(***************************************************************************)
SubVals == {CInt(-1), CInt(1)}

DiagVals == {CInt(1), CInt(2), <<Whole(1), Whole(1)>>}

SupVals == {CInt(-1), Im(Whole(1))}

RhsUnits == {CInt(1), Im(Whole(1))}

InitThomas ==
  /\ N \in 2..MaxN
  /\ t \in {0, 1}
  /\ n = t + 1
  /\ dr = 1 /\ dt = 1 /\ decay = 1
  /\ pc = "forward"
  /\ fault = "none"
  /\ A_J \in {q \in [1..N -> SubVals \cup {CInt(0)}] :
                /\ q[1] = CInt(0)
                /\ \A k \in 2..N : q[k] \in SubVals}
  /\ B_J \in [1..N -> DiagVals]
  /\ C_J \in {q \in [1..N -> SupVals \cup {CInt(0)}] :
                /\ q[N] = CInt(0)
                /\ \A k \in 1..(N - 1) : q[k] \in SupVals}
  /\ \E u \in RhsUnits :
       psi_n_J = [k \in 1..(t + 1) |->
                    IF k = t + 1 THEN [J1 \in 1..N |-> CMul(u, CInt(J1))] ELSE psi_0]
  /\ V_n_J = <<>>
  /\ B = <<>> /\ D = <<>> /\ X = <<>>
  /\ r_99 = <<>> /\ l = 0 /\ s = Whole(0) /\ i = 0

NextThomas ==
  \/ ForwardSweep
  \/ BackwardSweep
  \/ AppendPsi

SpecThomas == InitThomas /\ [][NextThomas]_vars

(***************************************************************************)
(* C1.  ThomasSolver: for N >= 2, coefficient lists a, b, c and right-hand *)
(* side d with a[0] = 0 and c[N-1] = 0, and no modified diagonal B_i zero, *)
(* the returned X has length N and satisfies                               *)
(* a_i X_{i-1} + b_i X_i + c_i X_{i+1} = d_i for every i (out-of-range     *)
(* terms dropped); a=[0,-1,-1], b=[2,2,2], c=[-1,-1,0], d=[1,2,3] gives    *)
(* X = [5/2, 4, 7/2].                                                      *)
(***************************************************************************)
RowProduct(a, b, c, x, k) ==
  CAdd(CAdd(IF k > 1 THEN CMul(a[k], x[k - 1]) ELSE CInt(0), CMul(b[k], x[k])),
       IF k < Len(x) THEN CMul(c[k], x[k + 1]) ELSE CInt(0))

FixtureA == <<CInt(0), CInt(-1), CInt(-1)>>

FixtureB == <<CInt(2), CInt(2), CInt(2)>>

FixtureC == <<CInt(-1), CInt(-1), CInt(0)>>

FixtureD == <<CInt(1), CInt(2), CInt(3)>>

FixtureX == <<Re(Rat(5, 2)), CInt(4), Re(Rat(7, 2))>>

IsFixture == N = 3 /\ A_J = FixtureA /\ B_J = FixtureB /\ C_J = FixtureC
             /\ psi_n_J[t + 1] = FixtureD

C1_ThomasSolves ==
  [][(pc = "backward" /\ pc' = "append" /\ N >= 2 /\ ~ZeroPivot(B, N))
       => /\ Len(X') = N
          /\ \A k \in 1..N :
               RowProduct(A_J, B_J, C_J, X', k) = psi_n_J[t + 1][k]
          /\ (IsFixture => X' = FixtureX)]_vars

C1_Witness == pc = "append" /\ N = 3 /\ X = FixtureX /\ psi_n_J[t + 1] = FixtureD

(***************************************************************************)
(* The r_99 cell on a general history: n + 1 snapshots of N amplitudes     *)
(* drawn from a small set, after a time-step loop that ran to its end.     *)
(***************************************************************************)
AmpVals == {CInt(0), Re(Rat(1, 4)), CInt(1)}

InitR99 ==
  /\ N \in 1..MaxN
  /\ n \in {0, 1}
  /\ dr \in {1, 2}
  /\ dt = 1 /\ decay = 1
  /\ pc = "r99"
  /\ fault = "none"
  /\ t = n
  /\ psi_n_J \in [1..(n + 1) -> [1..N -> AmpVals]]
  /\ V_n_J = <<>> /\ A_J = <<>> /\ B_J = <<>> /\ C_J = <<>>
  /\ B = <<>> /\ D = <<>> /\ X = <<>>
  /\ r_99 = <<>> /\ l = 0 /\ s = Whole(0) /\ i = 0

NextR99 ==
  \/ ScanSnapshot
  \/ Report

SpecR99 == InitR99 /\ [][NextR99]_vars

(***************************************************************************)
(* Vocabulary of the claims.                                               *)
(***************************************************************************)
ValidGrid == N >= 2 /\ dr > 0 /\ dt > 0

InLoop == pc \in {"potential", "build", "forward", "backward", "append"}

LoopOver == pc \in {"r99", "done", "fault"}

(* s_J of the r_99 definition: the sum of the summands of indices 0 .. k-1 *)
RECURSIVE CumSum(_, _)
CumSum(snap, k) ==
  IF k = 0 THEN Whole(0) ELSE RAdd(CumSum(snap, k - 1), Summand(k - 1, snap[k]))

Exceeds(snap, k) == RGt(CumSum(snap, k), Threshold)

Crosses(snap) == \E k \in 1..Len(snap) : Exceeds(snap, k)

Scanning == pc = "r99" /\ l <= n /\ l < Len(psi_n_J)

(* one whole time step as a function of the snapshot it starts from *)
EvolvedFrom(snap) ==
  LET V  == [J1 \in 1..N |-> Potential(snap, J1 - 1)]
      a  == [J1 \in 1..N |-> RowA(J1 - 1)]
      b  == [J1 \in 1..N |-> RowB(J1 - 1, V[PotentialIndex(J1 - 1) + 1])]
      c  == [J1 \in 1..N |-> RowC(J1 - 1)]
      Bs == ForwardB(a, b, c, N)
      Ds == ForwardD(a, snap, Bs, N)
  IN  NewPsi(Reverse(BackwardX(c, Bs, Ds, N)), snap)

(***************************************************************************)
(* C2.  TimeStepper: for every grid with N >= 2 and every step count       *)
(* n >= 0, whatever the relation between n and N, a run in which no Thomas *)
(* pivot is zero completes all n steps and ends with a history of exactly  *)
(* n + 1 snapshots, each of length N.                                      *)
(***************************************************************************)
C2_RunCompletes ==
  (ValidGrid /\ LoopOver)
    => /\ Len(psi_n_J) = n + 1
       /\ \A k \in 1..Len(psi_n_J) : Len(psi_n_J[k]) = N

(***************************************************************************)
(* C3.  TridiagonalBuilder: at every time step and for every grid index J  *)
(* the diagonal coefficient b_J is built from the potential value V_J at   *)
(* that same grid index J.                                                 *)
(***************************************************************************)
C3_DiagonalReadsOwnPotential ==
  [][(pc = "build" /\ pc' = "forward" /\ ValidGrid)
       => \A J \in 0..(N - 1) : B_J'[J + 1] = RowB(J, V_n_J[J + 1])]_vars

(***************************************************************************)
(* C4.  PotentialEvaluator: for every snapshot of length N and every J,    *)
(* V_J = 2 pi Omega^2 ((J dr)^2 S1 - S2): the factor multiplies the whole  *)
(* bracket, S2 included; the result has exactly N entries.                 *)
(***************************************************************************)
C4_PotentialFactorsBracket ==
  (pc = "build" /\ ValidGrid)
    => /\ Len(V_n_J) = N
       /\ \A J \in 0..(N - 1) :
            V_n_J[J + 1] =
              RMul(Whole(2 * pi * om_sq),
                   RSub(RMul(Whole((J * dr) * (J * dr)), sum_1(psi_n_J[t + 1], N)),
                        sum_2(psi_n_J[t + 1], N)))

ZeroPivotAbortsFirstStep ==
  [][(t = 0 /\ (\/ pc = "forward" /\ ZeroPivot(ForwardB(A_J, B_J, C_J, N), N - 1)
                \/ pc = "backward" /\ ZeroPivot(B, N)))
       => (pc' = "fault" /\ psi_n_J' = psi_n_J)]_vars

(* in a run of the notebook no pivot is zero: the real part of every B_i   *)
(* is at least 1/2                                                         *)
PivotsOfRunNonzero ==
  pc = "backward" => \A k \in 1..N : ~RGt(Rat(1, 2), B[k][1])

(***************************************************************************)
(* C6.  EnclosedRadiusDiagnostic, crossing case: for a snapshot whose      *)
(* cumulative sum exceeds 0.99 at some index, the reported radius is       *)
(* J* dr, J* being the smallest index with s_J > 0.99.                     *)
(***************************************************************************)
C6_RadiusAtFirstCrossing ==
  [][(Scanning /\ Crosses(psi_n_J[l + 1]))
       => \E k \in 1..Len(psi_n_J[l + 1]) :
            /\ Exceeds(psi_n_J[l + 1], k)
            /\ \A j \in 1..(k - 1) : ~Exceeds(psi_n_J[l + 1], j)
            /\ r_99' = Append(r_99, Whole((k - 1) * dr))]_vars

C6_Witness ==
  /\ pc = "r99" /\ l = 1 /\ N >= 3
  /\ r_99 = <<Whole(2 * dr)>>
  /\ CumSum(psi_n_J[1], 2) # Whole(0)

(***************************************************************************)
(* C7.  EnclosedRadiusDiagnostic, exhausted domain: for a snapshot whose   *)
(* cumulative sum never exceeds 0.99 the diagnostic reports the outer      *)
(* radius (N-1) dr, so the series has one radius per snapshot and entry l  *)
(* belongs to time step l.                                                 *)
(***************************************************************************)
C7_ExhaustedReportsBoundary ==
  [][(Scanning /\ ValidGrid /\ ~Crosses(psi_n_J[l + 1]))
       => /\ r_99' = Append(r_99, Whole((N - 1) * dr))
          /\ Len(r_99') = l']_vars

(***************************************************************************)
(* C8.  ConfigurationError: with N < 2, dr <= 0 or dt <= 0 the error is    *)
(* detected before the time-step loop: no iteration of the loop executes   *)
(* and no evolved snapshot is appended.                                    *)
(***************************************************************************)
C8_BadConfigNeverSteps ==
  ~ValidGrid => (~InLoop /\ Len(psi_n_J) <= 1)

(***************************************************************************)
(* C9.  The history is append-only: after k completed time steps it holds  *)
(* k + 1 snapshots; a completed step appends one snapshot computed from    *)
(* snapshot k and leaves snapshots 0 .. k unchanged.                       *)
(***************************************************************************)
C9_HistoryAppendOnly ==
  [][(pc # "config")
       => /\ Len(psi_n_J) = t + 1
          /\ Len(psi_n_J') = t' + 1
          /\ \/ psi_n_J' = psi_n_J /\ t' = t
             \/ /\ pc = "append"
                /\ t' = t + 1
                /\ \A k \in 1..(t + 1) : psi_n_J'[k] = psi_n_J[k]
                /\ psi_n_J'[t + 2] = EvolvedFrom(psi_n_J[t + 1])]_vars

C9_Witness ==
  /\ pc = "r99" /\ t = 2 /\ Len(psi_n_J) = 3
  /\ psi_n_J[2] # psi_n_J[1] /\ psi_n_J[3] # psi_n_J[2]

(***************************************************************************)
(* C10.  TridiagonalBuilder boundary conventions: for N >= 2 the three     *)
(* lists have length N, a[0] = 0, c[N-1] = 0, c[0] = -6 K R,               *)
(* a[N-1] = -K R (N-2)/(N-1), and a[J] = -K R (J-1)/J, c[J] = -K R (J+1)/J *)
(* for 0 < J < N-1; every J gets exactly one case, N = 2 included.         *)
(***************************************************************************)
MinusKRTimes(p, q) == CMul(CSub(CInt(0), CMul(K, Re(R))), Re(Rat(p, q)))

C10_BoundaryConventions ==
  (pc = "forward" /\ N >= 2)
    => /\ Len(A_J) = N /\ Len(B_J) = N /\ Len(C_J) = N
       /\ A_J[1] = CInt(0)
       /\ C_J[N] = CInt(0)
       /\ C_J[1] = MinusKRTimes(6, 1)
       /\ A_J[N] = MinusKRTimes(N - 2, N - 1)
       /\ \A J \in 1..(N - 2) :
            /\ A_J[J + 1] = MinusKRTimes(J - 1, J)
            /\ C_J[J + 1] = MinusKRTimes(J + 1, J)

C10_Witness ==
  /\ pc = "forward" /\ N = 3 /\ dt = 1
  /\ C_J[2] # CInt(0) /\ A_J[3] # CInt(0)

(***************************************************************************)
(* The r_99 cell run to its end: the interpreter executes the next         *)
(* iteration of the while loop whenever the loop condition holds, and the  *)
(* statement after the loop once it fails.  An iteration has no guard but  *)
(* the loop condition, so ScanEnabled is ENABLED <<ScanSnapshot>>_vars and *)
(* FairScan is WF_vars(ScanSnapshot) written out.                          *)
(***************************************************************************)
ScanEnabled == pc = "r99" /\ l <= n

FairScan == []<>(~ScanEnabled) \/ []<><<ScanSnapshot>>_vars

SpecR99Fair == InitR99 /\ [][NextR99]_vars /\ FairScan /\ WF_vars(Report)

(***************************************************************************)
(* C11.  The r99 scan always terminates: on a history of n + 1 snapshots   *)
(* every iteration of the outer loop raises l by exactly one, whether the  *)
(* inner scan ends by crossing the threshold or by exhausting the          *)
(* snapshot; iteration l scans snapshot l and appends one radius when that *)
(* snapshot crosses and none otherwise, leaving the history and the radii  *)
(* already recorded alone; the loop is left with l = n + 1, and it is      *)
(* always left.                                                            *)
(***************************************************************************)
C11_ScanTerminates ==
  /\ [][(pc = "r99" /\ l <= n /\ Len(psi_n_J) = n + 1)
          => /\ l' = l + 1
             /\ pc' = "r99"
             /\ psi_n_J' = psi_n_J
             /\ Len(r_99') = Len(r_99) + (IF Crosses(psi_n_J[l + 1]) THEN 1 ELSE 0)
             /\ SubSeq(r_99', 1, Len(r_99)) = r_99]_vars
  /\ [][(pc = "r99" /\ pc' # "r99") => (l = n + 1 /\ l' = l)]_vars
  /\ [](pc = "r99" => (l \in 0..(n + 1) /\ Len(r_99) <= l))
  /\ ((pc = "r99") ~> (pc # "r99" /\ l = n + 1))

(* both endings of the inner scan have happened and the loop has been left *)
C11_Witness ==
  /\ pc = "done" /\ n = 1 /\ l = n + 1
  /\ Len(r_99) = 1
  /\ Crosses(psi_n_J[1]) /\ ~Crosses(psi_n_J[2])

=============================================================================
